---- MODULE Spec2Model ----
(***************************************************************************)
(* The Teeny Tiny compiler: lexer (src/lex.py), recursive-descent parser   *)
(* with syntax-directed emission (src/parse.py) and the driver             *)
(* (src/teenytiny.py).  Text is a TLA+ string, the source buffer is a      *)
(* sequence of one-character strings, and the parser's call stack is an    *)
(* explicit sequence of return points.                                      *)
(***************************************************************************)
EXTENDS Integers, Sequences, FiniteSets, TLC

VARIABLES
  pc,               \* position of main(): "main", ..., "done", or "aborted"
  argc,             \* len(sys.argv)
  fileText,         \* contents of the input file
  source,           \* Lexer.source
  curPos,           \* Lexer.curPos
  curChar,          \* Lexer.curChar
  curToken,         \* Parser.curToken
  peekToken,        \* Parser.peekToken
  symbolsDeclared,  \* Parser.symbolsDeclared
  labelsDeclared,   \* Parser.labelsDeclared
  labelsGotoed,     \* Parser.labelsGotoed
  header,           \* Emitter: header lines
  code,             \* Emitter: terminated body lines
  curLine,          \* Emitter: the body line under construction
  stack,            \* return points of the parser's active calls, top last
  err,              \* message given to sys.exit, "" while running
  outFile,          \* lines of out.c
  writes            \* number of calls of Emitter.writeFile

vars == <<pc, argc, fileText, source, curPos, curChar, curToken, peekToken,
          symbolsDeclared, labelsDeclared, labelsGotoed, header, code,
          curLine, stack, err, outFile, writes>>

(***************************************************************************)
(* Bounds of the input files.                                              *)
(***************************************************************************)
MaxLines == 3
MaxChars == 4

(***************************************************************************)
(* Characters.                                                             *)
(***************************************************************************)
\* the character '\0', written as the string "NUL"
EOFCH == "NUL"
NEWLINE == "\n"
HASHMARK == "#"
WHITESPACE == {" ", "\t", "\r"}
DOUBLEQUOTE == "\""

Digits == {"0", "1", "2", "3", "4", "5", "6", "7", "8", "9"}
Letters ==
  {"a", "b", "c", "d", "e", "f", "g", "h", "i", "j", "k", "l", "m",
   "n", "o", "p", "q", "r", "s", "t", "u", "v", "w", "x", "y", "z",
   "A", "B", "C", "D", "E", "F", "G", "H", "I", "J", "K", "L", "M",
   "N", "O", "P", "Q", "R", "S", "T", "U", "V", "W", "X", "Y", "Z"}

IsDigit(c) == c \in Digits
IsAlpha(c) == c \in Letters
IsAlnum(c) == IsAlpha(c) \/ IsDigit(c)

RECURSIVE Slice(_, _, _)
\* source[a:b] of Python, as text
Slice(s, a, b) == IF a >= b THEN "" ELSE s[a + 1] \o Slice(s, a + 1, b)

(***************************************************************************)
(* Token kinds and tokens.                                                 *)
(***************************************************************************)
TokenType ==
  << [name |-> "EOF", value |-> -1], [name |-> "NEWLINE", value |-> 0],
     [name |-> "NUMBER", value |-> 1], [name |-> "IDENT", value |-> 2],
     [name |-> "STRING", value |-> 3],
     [name |-> "LABEL", value |-> 101], [name |-> "GOTO", value |-> 102],
     [name |-> "PRINT", value |-> 103], [name |-> "INPUT", value |-> 104],
     [name |-> "LET", value |-> 105], [name |-> "IF", value |-> 106],
     [name |-> "THEN", value |-> 107], [name |-> "ENDIF", value |-> 108],
     [name |-> "WHILE", value |-> 109], [name |-> "REPEAT", value |-> 110],
     [name |-> "ENDWHILE", value |-> 111],
     [name |-> "EQ", value |-> 201], [name |-> "PLUS", value |-> 202],
     [name |-> "MINUS", value |-> 203], [name |-> "ASTERISK", value |-> 204],
     [name |-> "SLASH", value |-> 205], [name |-> "EQEQ", value |-> 206],
     [name |-> "NOTEQ", value |-> 207], [name |-> "LT", value |-> 208],
     [name |-> "LTEQ", value |-> 209], [name |-> "GT", value |-> 210],
     [name |-> "GTEQ", value |-> 211] >>

None == "None"

Token(text, kind) == [text |-> text, kind |-> kind]

NoToken == Token("", None)

RECURSIVE KeywordScan_anykind(_, _)
\* (a variant without the test of the kind's value)
KeywordScan_anykind(tokenText, i) ==
  IF i > Len(TokenType) THEN None
  ELSE IF TokenType[i].name = tokenText
       THEN TokenType[i].name
       ELSE KeywordScan_anykind(tokenText, i + 1)

RECURSIVE KeywordScan(_, _)
KeywordScan(tokenText, i) ==
  IF i > Len(TokenType) THEN None
  ELSE IF /\ TokenType[i].name = tokenText
          /\ TokenType[i].value >= 100
          /\ TokenType[i].value < 200
       THEN TokenType[i].name
       ELSE KeywordScan(tokenText, i + 1)

mapTextToKeywordType(tokenText) == KeywordScan(tokenText, 1)

(***************************************************************************)
(* The machine: the fields of the Lexer, the Parser and the Emitter and    *)
(* the pending exit message, as one record m.  An operation applied to a   *)
(* machine that has already called sys.exit leaves it as it is.            *)
(***************************************************************************)
St ==
  [source |-> source, curPos |-> curPos, curChar |-> curChar,
   curToken |-> curToken, peekToken |-> peekToken,
   symbolsDeclared |-> symbolsDeclared, labelsDeclared |-> labelsDeclared,
   labelsGotoed |-> labelsGotoed, header |-> header, code |-> code,
   curLine |-> curLine, err |-> err, pc |-> pc, stack |-> stack,
   outFile |-> outFile, writes |-> writes]

Running(m) == m.err = ""

(***************************************************************************)
(* Lexer.                                                                  *)
(***************************************************************************)
\* (a variant that keeps the last character at the end of the buffer)
skipCurChar_stale(m) ==
  LET p == m.curPos + 1
  IN  [m EXCEPT !.curPos = p,
                !.curChar = IF p >= Len(m.source) THEN m.curChar
                            ELSE m.source[p + 1]]

skipCurChar(m) ==
  LET p == m.curPos + 1
  IN  [m EXCEPT !.curPos = p,
                !.curChar = IF p >= Len(m.source) THEN EOFCH
                            ELSE m.source[p + 1]]

peek(m) ==
  IF m.curPos + 1 >= Len(m.source) THEN EOFCH ELSE m.source[m.curPos + 2]

\* sys.exit(message): the exception unwinds every active call and main()
Exit(m, message) ==
  IF Running(m)
  THEN [m EXCEPT !.err = message, !.pc = "aborted", !.stack = <<>>]
  ELSE m

LexerAbort(m, message) == Exit(m, "Lexing error. " \o message)

LexerInit(m, text) ==
  skipCurChar([m EXCEPT !.source = text \o <<NEWLINE>>,
                        !.curChar = "",
                        !.curPos = -1])

RECURSIVE skipWhitespace_newline(_)
\* (a variant that takes the newline for a blank)
skipWhitespace_newline(m) ==
  IF m.curChar \in WHITESPACE \cup {NEWLINE}
  THEN skipWhitespace_newline(skipCurChar(m))
  ELSE m

RECURSIVE skipWhitespace(_)
skipWhitespace(m) ==
  IF m.curChar \in WHITESPACE THEN skipWhitespace(skipCurChar(m)) ELSE m

RECURSIVE SkipToNewline(_)
SkipToNewline(m) ==
  IF m.curChar # NEWLINE THEN SkipToNewline(skipCurChar(m)) ELSE m

skipComment(m) == IF m.curChar = HASHMARK THEN SkipToNewline(m) ELSE m

\* the branch of getToken for '=', '>' and '<': one character or two
\* Token(lastChar + self.curChar, kind), after the skipCurChar
TwoCharToken(m, lastChar, kind) ==
  [m |-> m, token |-> Token(lastChar \o m.curChar, kind)]

\* (a variant that does not look at the next character)
OneOrTwo_single(m, single, double) ==
  [m |-> m, token |-> Token(m.curChar, single)]

\* the branch of getToken for '=', '>' and '<': one character or two
OneOrTwo(m, single, double) ==
  IF peek(m) = "="
  THEN TwoCharToken(skipCurChar(m), m.curChar, double)
  ELSE [m |-> m, token |-> Token(m.curChar, single)]

RECURSIVE StringScan_percent(_)
\* (a variant that lets a percent sign through)
StringScan_percent(m) ==
  IF m.curChar # DOUBLEQUOTE
  THEN IF m.curChar \in {"\r", "\n", "\t", "\\"}
       THEN LexerAbort(m, "Illegal character in string.")
       ELSE StringScan_percent(skipCurChar(m))
  ELSE m

RECURSIVE StringScan(_)
StringScan(m) ==
  IF m.curChar # DOUBLEQUOTE
  THEN IF m.curChar \in {"\r", "\n", "\t", "\\", "%"}
       THEN LexerAbort(m, "Illegal character in string.")
       ELSE StringScan(skipCurChar(m))
  ELSE m

RECURSIVE DigitScan(_)
DigitScan(m) == IF IsDigit(peek(m)) THEN DigitScan(skipCurChar(m)) ELSE m

\* (a variant that lets a number end with its '.')
FractionScan_lenient(m) == DigitScan(m)

\* after the '.' of a number has been skipped
FractionScan(m) ==
  IF ~IsDigit(peek(m))
  THEN LexerAbort(m, "Illegal character in number.")
  ELSE DigitScan(m)

\* after the leading digits of a number
DecimalScan(m) ==
  IF peek(m) = "." THEN FractionScan(skipCurChar(m)) ELSE m

NumberScan(m) == DecimalScan(DigitScan(m))

RECURSIVE AlnumScan(_)
AlnumScan(m) == IF IsAlnum(peek(m)) THEN AlnumScan(skipCurChar(m)) ELSE m

StringToken(m, startPos) ==
  [m |-> m, token |-> Token(Slice(m.source, startPos, m.curPos), "STRING")]

\* the string branch, after the opening quote has been skipped
StringBranch(m) == StringToken(StringScan(m), m.curPos)

NumberToken(m, startPos) ==
  [m |-> m,
   token |-> Token(Slice(m.source, startPos, m.curPos + 1), "NUMBER")]

\* Token(tokenText, keywordType), or an IDENT when keywordType is None
WordToken(m, tokenText, keywordType) ==
  [m |-> m,
   token |-> IF keywordType = None THEN Token(tokenText, "IDENT")
             ELSE Token(tokenText, keywordType)]

WordText(m, startPos) == Slice(m.source, startPos, m.curPos + 1)

WordBranch(m, startPos) ==
  WordToken(m, WordText(m, startPos),
            mapTextToKeywordType(WordText(m, startPos)))

\* getToken up to, not including, its final skipCurChar
Classify(m) ==
  CASE m.curChar = "+" -> [m |-> m, token |-> Token(m.curChar, "PLUS")]
    [] m.curChar = "-" -> [m |-> m, token |-> Token(m.curChar, "MINUS")]
    [] m.curChar = "*" -> [m |-> m, token |-> Token(m.curChar, "ASTERISK")]
    [] m.curChar = "/" -> [m |-> m, token |-> Token(m.curChar, "SLASH")]
    [] m.curChar = NEWLINE ->
         [m |-> m, token |-> Token(m.curChar, "NEWLINE")]
    [] m.curChar = EOFCH -> [m |-> m, token |-> Token(m.curChar, "EOF")]
    [] m.curChar = "=" -> OneOrTwo(m, "EQ", "EQEQ")
    [] m.curChar = ">" -> OneOrTwo(m, "GT", "GTEQ")
    [] m.curChar = "<" -> OneOrTwo(m, "LT", "LTEQ")
    [] m.curChar = "!" ->
         IF peek(m) = "="
         THEN TwoCharToken(skipCurChar(m), m.curChar, "NOTEQ")
         ELSE [m |-> LexerAbort(m, "Expected !=, got !" \o peek(m)),
               token |-> NoToken]
    [] m.curChar = DOUBLEQUOTE -> StringBranch(skipCurChar(m))
    [] IsDigit(m.curChar) -> NumberToken(NumberScan(m), m.curPos)
    [] IsAlpha(m.curChar) -> WordBranch(AlnumScan(m), m.curPos)
    [] OTHER -> [m |-> LexerAbort(m, "Unknow token: " \o m.curChar),
                 token |-> NoToken]

\* the end of getToken: the final skipCurChar and the return
getToken_return(r) ==
  IF Running(r.m) THEN [m |-> skipCurChar(r.m), token |-> r.token]
  ELSE [m |-> r.m, token |-> NoToken]

getToken(m) == getToken_return(Classify(skipComment(skipWhitespace(m))))

(***************************************************************************)
(* Emitter.                                                                *)
(***************************************************************************)
EmitterInit(m) ==
  [m EXCEPT !.header = <<>>, !.code = <<>>, !.curLine = ""]

emit(m, text) ==
  IF Running(m) THEN [m EXCEPT !.curLine = @ \o text] ELSE m

emitLine(m, text) ==
  IF Running(m)
  THEN [m EXCEPT !.code = Append(@, m.curLine \o text), !.curLine = ""]
  ELSE m

headerLine(m, text) ==
  IF Running(m) THEN [m EXCEPT !.header = Append(@, text)] ELSE m

\* the lines written to the output file: header first, then body
Output(m) ==
  m.header \o m.code \o (IF m.curLine = "" THEN <<>> ELSE <<m.curLine>>)

writeFile(m) ==
  [m EXCEPT !.outFile = Output(m), !.writes = @ + 1]

(***************************************************************************)
(* Parser: helpers.                                                        *)
(***************************************************************************)
ParserAbort(m, message) == Exit(m, "Error. " \o message)

curTokeHasType(m, kind) == kind = m.curToken.kind

curTokenIsComparisonOperator(m) ==
  \/ curTokeHasType(m, "GT") \/ curTokeHasType(m, "GTEQ")
  \/ curTokeHasType(m, "LT") \/ curTokeHasType(m, "LTEQ")
  \/ curTokeHasType(m, "EQEQ") \/ curTokeHasType(m, "NOTEQ")

\* self.peekToken = <the token getToken returned>
SetPeekToken(r) ==
  IF Running(r.m) THEN [r.m EXCEPT !.peekToken = r.token] ELSE r.m

\* (a variant that reads the next token before it tests the current one)
skipCurToken_fetchfirst_test(n, m, requiredType) ==
  IF Running(n) /\ requiredType # None /\ ~curTokeHasType(m, requiredType)
  THEN ParserAbort(n, "Expected " \o requiredType \o ", got "
                      \o m.curToken.kind)
  ELSE n

skipCurToken_fetchfirst(m, requiredType) ==
  IF ~Running(m) THEN m
  ELSE skipCurToken_fetchfirst_test(
         SetPeekToken(getToken([m EXCEPT !.curToken = m.peekToken])),
         m, requiredType)

skipCurToken(m, requiredType) ==
  IF ~Running(m) THEN m
  ELSE IF requiredType # None /\ ~curTokeHasType(m, requiredType)
  THEN ParserAbort(m, "Expected " \o requiredType \o ", got "
                      \o m.curToken.kind)
  ELSE SetPeekToken(getToken([m EXCEPT !.curToken = m.peekToken]))

ParserInit(m) ==
  skipCurToken(
    skipCurToken([m EXCEPT !.symbolsDeclared = {}, !.labelsDeclared = {},
                           !.labelsGotoed = {}, !.curToken = NoToken,
                           !.peekToken = NoToken], None), None)

\* the parser's call stack: the top is the segment to run next
Top(m) == IF m.stack = <<>> THEN "" ELSE m.stack[Len(m.stack)]

At(m, label) == m.pc = "parsing" /\ Top(m) = label

Goto(m, label) ==
  IF Running(m)
  THEN [m EXCEPT !.stack = SubSeq(@, 1, Len(@) - 1) \o <<label>>]
  ELSE m

\* call the function entered at callee, continue at label when it returns
Call(m, label, callee) ==
  IF Running(m)
  THEN [m EXCEPT !.stack = SubSeq(@, 1, Len(@) - 1) \o <<label, callee>>]
  ELSE m

Return(m) ==
  IF Running(m)
  THEN [m EXCEPT !.stack = SubSeq(@, 1, Len(@) - 1)]
  ELSE m

\* (a variant with a test in place of the loop)
SkipNewlines_once(m) ==
  IF Running(m) /\ curTokeHasType(m, "NEWLINE")
  THEN skipCurToken(m, None)
  ELSE m

RECURSIVE SkipNewlines(_)
\* while self.curTokeHasType(TokenType.NEWLINE): self.skipCurToken()
SkipNewlines(m) ==
  IF Running(m) /\ curTokeHasType(m, "NEWLINE")
  THEN SkipNewlines(skipCurToken(m, None))
  ELSE m

\* (a variant that takes the line break as optional)
nl_optional(m) == SkipNewlines(m)

nl(m) == SkipNewlines(skipCurToken(m, "NEWLINE"))

(***************************************************************************)
(* Parser: program().                                                      *)
(***************************************************************************)
program_start(m) ==
  Goto(SkipNewlines(headerLine(headerLine(m, "#include <stdio.h>"),
                               "int main(void){")),
       "program_loop")

program_loop(m) ==
  IF ~curTokeHasType(m, "EOF")
  THEN Call(m, "program_loop", "statement")
  ELSE Goto(m, "program_check")

\* the GOTO'ed labels that the loop of program() can report
UndeclaredLabels(m) == m.labelsGotoed \ m.labelsDeclared

\* (a variant that defines the label it finds instead of exiting)
program_check_define(m, label) ==
  IF UndeclaredLabels(m) # {}
  THEN Goto(emitLine(m, label \o ":"), "program_wrap")
  ELSE Goto(m, "program_wrap")

\* (a variant that reports nothing)
program_check_unchecked(m, label) == Goto(m, "program_wrap")

\* the loop over labelsGotoed, a set: label is the first undeclared one in
\* the iteration order of this run
program_check(m, label) ==
  IF UndeclaredLabels(m) # {}
  THEN ParserAbort(m, "Attempting to GOTO to undeclared label: " \o label)
  ELSE Goto(m, "program_wrap")

program_wrap(m) ==
  Return(emitLine(emitLine(m, "return 0;"), "}"))

(***************************************************************************)
(* Parser: statement().                                                    *)
(***************************************************************************)
\* PRINT, after its first skipCurToken
statement_PRINT_arg(m) ==
  IF ~Running(m) THEN m
  ELSE IF curTokeHasType(m, "STRING")
  THEN Goto(skipCurToken(emitLine(m, "printf(\"" \o m.curToken.text
                                     \o "\\n\");"), None),
            "statement_nl")
  ELSE Call(emit(m, "printf(\"%.2f\\n\", (float)("),
            "print_end", "expression")

statement_PRINT(m) == statement_PRINT_arg(skipCurToken(m, None))

print_end(m) == Goto(emitLine(m, "));"), "statement_nl")

statement_IF(m) ==
  Call(emit(skipCurToken(m, None), "if("), "if_then", "comparison")

if_then(m) ==
  Goto(emitLine(nl(skipCurToken(m, "THEN")), "){"), "if_body")

\* (a variant that takes either closer)
if_body_anycloser(m) ==
  IF ~curTokeHasType(m, "ENDIF") /\ ~curTokeHasType(m, "ENDWHILE")
  THEN Call(m, "if_body", "statement")
  ELSE Goto(emitLine(skipCurToken(m, None), "}"), "statement_nl")

if_body(m) ==
  IF ~curTokeHasType(m, "ENDIF")
  THEN Call(m, "if_body", "statement")
  ELSE Goto(emitLine(skipCurToken(m, "ENDIF"), "}"), "statement_nl")

statement_WHILE(m) ==
  Call(emit(skipCurToken(m, None), "while("), "while_repeat", "comparison")

while_repeat(m) ==
  Goto(emitLine(nl(skipCurToken(m, "REPEAT")), "){"), "while_body")

while_body(m) ==
  IF ~curTokeHasType(m, "ENDWHILE")
  THEN Call(m, "while_body", "statement")
  ELSE Goto(emitLine(skipCurToken(m, "ENDWHILE"), "}"), "statement_nl")

\* self.labelsDeclared.add(self.curToken.text)
AddLabelDeclared(m) ==
  [m EXCEPT !.labelsDeclared = @ \cup {m.curToken.text}]

\* (a variant without the duplicate test)
statement_LABEL_ident_nodup(m) ==
  IF ~Running(m) THEN m
  ELSE Goto(skipCurToken(emitLine(AddLabelDeclared(m),
                                  m.curToken.text \o ":"), "IDENT"),
            "statement_nl")

\* LABEL, after its first skipCurToken
statement_LABEL_ident(m) ==
  IF ~Running(m) THEN m
  ELSE IF m.curToken.text \in m.labelsDeclared
  THEN ParserAbort(m, "Label already exists: " \o m.curToken.text)
  ELSE Goto(skipCurToken(emitLine(AddLabelDeclared(m),
                                  m.curToken.text \o ":"), "IDENT"),
            "statement_nl")

statement_LABEL(m) == statement_LABEL_ident(skipCurToken(m, None))

\* self.labelsGotoed.add(self.curToken.text)
AddLabelGotoed(m) ==
  [m EXCEPT !.labelsGotoed = @ \cup {m.curToken.text}]

\* (a variant that wants the target declared already)
statement_GOTO_ident_backward(m) ==
  IF ~Running(m) THEN m
  ELSE IF m.curToken.text \notin m.labelsDeclared
  THEN ParserAbort(m, "Attempting to GOTO to undeclared label: "
                      \o m.curToken.text)
  ELSE Goto(skipCurToken(emitLine(AddLabelGotoed(m),
                                  "goto " \o m.curToken.text \o ";"),
                         "IDENT"),
            "statement_nl")

\* GOTO, after its first skipCurToken
statement_GOTO_ident(m) ==
  IF ~Running(m) THEN m
  ELSE Goto(skipCurToken(emitLine(AddLabelGotoed(m),
                                  "goto " \o m.curToken.text \o ";"),
                         "IDENT"),
            "statement_nl")

statement_GOTO(m) == statement_GOTO_ident(skipCurToken(m, None))

\* (a variant without the membership test)
DeclareSymbolAlways(m) ==
  headerLine([m EXCEPT !.symbolsDeclared = @ \cup {m.curToken.text}],
             "float " \o m.curToken.text \o ";")

\* (a variant that declares at the point of use, in the body)
DeclareSymbolInBody(m) ==
  IF m.curToken.text \notin m.symbolsDeclared
  THEN emitLine([m EXCEPT !.symbolsDeclared = @ \cup {m.curToken.text}],
                "float " \o m.curToken.text \o ";")
  ELSE m

\* if the name is not in symbolsDeclared: add it and emit its declaration
DeclareSymbol(m) ==
  IF m.curToken.text \notin m.symbolsDeclared
  THEN headerLine([m EXCEPT !.symbolsDeclared = @ \cup {m.curToken.text}],
                  "float " \o m.curToken.text \o ";")
  ELSE m

\* LET, after its first skipCurToken
statement_LET_ident(m) ==
  IF ~Running(m) THEN m
  ELSE Call(skipCurToken(
              skipCurToken(emit(DeclareSymbol(m), m.curToken.text \o " = "),
                           "IDENT"), "EQ"),
            "let_end", "expression")

statement_LET(m) == statement_LET_ident(skipCurToken(m, None))

let_end(m) == Goto(emitLine(m, ";"), "statement_nl")

\* the five emitter calls of INPUT for the variable named text
EmitScanf(m, text) ==
  emitLine(
    emitLine(
      emit(
        emitLine(
          emitLine(m, "if(0 == scanf(\"%" \o "f\", &" \o text \o ")) {"),
          text \o " = 0;"),
        "scanf(\"%"),
      "*s\");"),
    "}")

\* INPUT, after its first skipCurToken
statement_INPUT_ident(m) ==
  IF ~Running(m) THEN m
  ELSE Goto(skipCurToken(EmitScanf(DeclareSymbol(m), m.curToken.text),
                         "IDENT"),
            "statement_nl")

statement_INPUT(m) == statement_INPUT_ident(skipCurToken(m, None))

\* (a variant that returns to the caller instead of exiting)
statement_invalid_ignored(m) == Return(m)

statement_invalid(m) ==
  ParserAbort(m, "Invalid statement at " \o m.curToken.text \o " ("
                 \o m.curToken.kind \o ")")

statement_nl(m) == Return(nl(m))

StatementKinds == {"PRINT", "IF", "WHILE", "LABEL", "GOTO", "LET", "INPUT"}

(***************************************************************************)
(* Parser: comparison(), expression(), term(), unary(), primary().         *)
(***************************************************************************)
comparison(m) == Call(m, "comparison_op", "expression")

\* (a variant that accepts an expression without a comparator)
comparison_op_optional(m) ==
  IF curTokenIsComparisonOperator(m)
  THEN Call(skipCurToken(emit(m, m.curToken.text), None),
            "comparison_loop", "expression")
  ELSE Return(m)

comparison_op(m) ==
  IF curTokenIsComparisonOperator(m)
  THEN Call(skipCurToken(emit(m, m.curToken.text), None),
            "comparison_loop", "expression")
  ELSE ParserAbort(m, "Expected comparison operator at: "
                      \o m.curToken.text)

comparison_loop(m) ==
  IF curTokenIsComparisonOperator(m)
  THEN Call(skipCurToken(emit(m, m.curToken.text), None),
            "comparison_loop", "expression")
  ELSE Return(m)

expression(m) == Call(m, "expression_loop", "term")

\* (a variant that consumes the operator without emitting it)
expression_loop_dropped(m) ==
  IF curTokeHasType(m, "PLUS") \/ curTokeHasType(m, "MINUS")
  THEN Call(skipCurToken(m, None), "expression_loop", "term")
  ELSE Return(m)

expression_loop(m) ==
  IF curTokeHasType(m, "PLUS") \/ curTokeHasType(m, "MINUS")
  THEN Call(skipCurToken(emit(m, m.curToken.text), None),
            "expression_loop", "term")
  ELSE Return(m)

term(m) == Call(m, "term_loop", "unary")

term_loop(m) ==
  IF curTokeHasType(m, "ASTERISK") \/ curTokeHasType(m, "SLASH")
  THEN Call(skipCurToken(emit(m, m.curToken.text), None),
            "term_loop", "unary")
  ELSE Return(m)

\* primary() is the last call of unary(): it returns to unary's caller
unary(m) ==
  IF curTokeHasType(m, "PLUS") \/ curTokeHasType(m, "MINUS")
  THEN Goto(skipCurToken(emit(m, m.curToken.text), None), "primary")
  ELSE Goto(m, "primary")

\* (a variant without the symbolsDeclared test)
primary_unchecked(m) ==
  IF curTokeHasType(m, "NUMBER") \/ curTokeHasType(m, "IDENT")
  THEN Return(skipCurToken(emit(m, m.curToken.text), None))
  ELSE ParserAbort(m, "Unexpected token at " \o m.curToken.text)

primary(m) ==
  IF curTokeHasType(m, "NUMBER")
  THEN Return(skipCurToken(emit(m, m.curToken.text), None))
  ELSE IF curTokeHasType(m, "IDENT")
  THEN IF m.curToken.text \notin m.symbolsDeclared
       THEN ParserAbort(m, "Referencing variable before assignment: "
                           \o m.curToken.text)
       ELSE Return(skipCurToken(emit(m, m.curToken.text), None))
  ELSE ParserAbort(m, "Unexpected token at " \o m.curToken.text)

(***************************************************************************)
(* main().                                                                 *)
(***************************************************************************)
main_args(m) ==
  IF argc # 2
  THEN Exit(m, "Error: Compiler needs source file as argument.")
  ELSE [m EXCEPT !.pc = "lexer"]

main_lexer(m) == [LexerInit(m, fileText) EXCEPT !.pc = "emitter"]

main_emitter(m) == [EmitterInit(m) EXCEPT !.pc = "parser"]

\* main() after Parser(lexer, emitter) has returned or exited
main_parser_done(m) == IF Running(m) THEN [m EXCEPT !.pc = "program"] ELSE m

main_parser(m) == main_parser_done(ParserInit(m))

main_program(m) == [m EXCEPT !.pc = "parsing", !.stack = <<"program">>]

\* (a variant: also when the run has exited, as a finally clause would)
ProgramReturnedOrExited(m) ==
  m.pc \in {"parsing", "aborted"} /\ m.stack = <<>>

\* parser.program() has returned to main()
ProgramReturned(m) == m.pc = "parsing" /\ m.stack = <<>>

main_writeFile(m) == [writeFile(m) EXCEPT !.pc = "done"]

(***************************************************************************)
(* Input files: at most MaxLines lines, each line one of Lines, joined by   *)
(* newlines.                                                               *)
(***************************************************************************)
kPRINT == <<"P", "R", "I", "N", "T">>
kLET == <<"L", "E", "T">>
kINPUT == <<"I", "N", "P", "U", "T">>
kIF == <<"I", "F">>
kTHEN == <<"T", "H", "E", "N">>
kENDIF == <<"E", "N", "D", "I", "F">>
kWHILE == <<"W", "H", "I", "L", "E">>
kREPEAT == <<"R", "E", "P", "E", "A", "T">>
kENDWHILE == <<"E", "N", "D", "W", "H", "I", "L", "E">>
kLABEL == <<"L", "A", "B", "E", "L">>
kGOTO == <<"G", "O", "T", "O">>
SP == <<" ">>

Lines ==
  { kPRINT \o SP \o <<"\"", "h", "i", "\"">>,
    kPRINT \o SP \o <<"x">>,
    kLET \o SP \o <<"x", " ", "=", " ", "5">>,
    kLET \o SP \o <<"y", "=", "-", "x", "*", "2", "+", "1", ".", "5">>,
    kLET \o SP \o <<"x", " ", "=", " ", "5", ".">>,
    kINPUT \o SP \o <<"y">>,
    kIF \o SP \o <<"x", ">", "=", "1">> \o SP \o kTHEN,
    kIF \o SP \o <<"1">> \o SP \o kTHEN,
    kENDIF,
    kWHILE \o SP \o <<"1", "<", "2">> \o SP \o kREPEAT,
    kENDWHILE,
    kLABEL \o SP \o <<"a">>,
    kGOTO \o SP \o <<"a">>,
    kGOTO \o SP \o <<"b">>,
    <<"#", "c">> }

RECURSIVE JoinLines(_)
JoinLines(ls) ==
  IF ls = <<>> THEN <<>>
  ELSE IF Len(ls) = 1 THEN ls[1]
  ELSE ls[1] \o <<NEWLINE>> \o JoinLines(Tail(ls))

LineSources ==
  UNION { { JoinLines(ls) : ls \in [1..n -> Lines] } : n \in 0..MaxLines }

\* and every text of at most MaxChars characters of Chars
Chars == {"5", ".", "x", " ", "\n"}

CharSources == UNION { [1..n -> Chars] : n \in 0..MaxChars }

\* two lines of Lines written on one line, alone or after a line of Lines
PairLines == {a \o SP \o b : a \in Lines, b \in Lines}

PairSources ==
  PairLines \cup {a \o <<NEWLINE>> \o b : a \in Lines, b \in PairLines}

\* openers and closers of blocks, at most MaxBlockLines lines of them
MaxBlockLines == 4

BlockLines ==
  { kWHILE \o SP \o <<"1", "<", "2">> \o SP \o kREPEAT,
    kIF \o SP \o <<"1", "<", "2">> \o SP \o kTHEN,
    kIF \o SP \o <<"1", "<", "2">> \o SP \o kREPEAT,
    kWHILE \o SP \o <<"1", "<", "2">>,
    kENDIF,
    kENDWHILE,
    kPRINT \o SP \o <<"\"", "h", "i", "\"">> }

BlockSources ==
  UNION { { JoinLines(ls) : ls \in [1..n -> BlockLines] } :
          n \in 0..MaxBlockLines }

\* "LET x =" and "WHILE ... REPEAT" around every text of at most
\* MaxExprChars characters of ExprChars
MaxExprChars == 4

ExprChars == {"1", "x", "+", "*", "<", " "}

ExprTexts == UNION { [1..n -> ExprChars] : n \in 0..MaxExprChars }

LetHead == kLET \o SP \o <<"x", " ", "=">>

ExprSources ==
  {LetHead \o e : e \in ExprTexts}
  \cup {kWHILE \o SP \o e \o SP \o kREPEAT : e \in ExprTexts}

\* a line of Lines followed, on the same line, by a "!" that is no token,
\* directly or after one or two tokens
LexErrorTails ==
  { <<"!">>, <<"+", " ", "!">>, <<"x", " ", "+", " ", "!">> }

LexErrorSources == {a \o SP \o t : a \in Lines, t \in LexErrorTails}

Sources ==
  LineSources \cup CharSources \cup PairSources \cup BlockSources
  \cup ExprSources \cup LexErrorSources

(***************************************************************************)
(* The state machine.                                                      *)
(***************************************************************************)
\* the machine when main() starts: no object is constructed yet
InitM ==
  [source |-> <<>>, curPos |-> -1, curChar |-> "",
   curToken |-> NoToken, peekToken |-> NoToken,
   symbolsDeclared |-> {}, labelsDeclared |-> {}, labelsGotoed |-> {},
   header |-> <<>>, code |-> <<>>, curLine |-> "", err |-> "",
   pc |-> "main", stack |-> <<>>, outFile |-> <<>>, writes |-> 0]

Init ==
  /\ \/ argc = 2 /\ fileText \in Sources
     \/ argc \in {1, 3} /\ fileText = <<>>
  /\ pc = InitM.pc
  /\ source = InitM.source
  /\ curPos = InitM.curPos
  /\ curChar = InitM.curChar
  /\ curToken = InitM.curToken
  /\ peekToken = InitM.peekToken
  /\ symbolsDeclared = InitM.symbolsDeclared
  /\ labelsDeclared = InitM.labelsDeclared
  /\ labelsGotoed = InitM.labelsGotoed
  /\ header = InitM.header
  /\ code = InitM.code
  /\ curLine = InitM.curLine
  /\ stack = InitM.stack
  /\ err = InitM.err
  /\ outFile = InitM.outFile
  /\ writes = InitM.writes

Commit(m) ==
  /\ source' = m.source
  /\ curPos' = m.curPos
  /\ curChar' = m.curChar
  /\ curToken' = m.curToken
  /\ peekToken' = m.peekToken
  /\ symbolsDeclared' = m.symbolsDeclared
  /\ labelsDeclared' = m.labelsDeclared
  /\ labelsGotoed' = m.labelsGotoed
  /\ header' = m.header
  /\ code' = m.code
  /\ curLine' = m.curLine
  /\ err' = m.err
  /\ pc' = m.pc
  /\ stack' = m.stack
  /\ outFile' = m.outFile
  /\ writes' = m.writes
  /\ UNCHANGED <<argc, fileText>>

MainArgs == pc = "main" /\ Commit(main_args(St))

MainLexer == pc = "lexer" /\ Commit(main_lexer(St))

MainEmitter == pc = "emitter" /\ Commit(main_emitter(St))

MainParser == pc = "parser" /\ Commit(main_parser(St))

MainProgram == pc = "program" /\ Commit(main_program(St))

MainWriteFile == ProgramReturned(St) /\ Commit(main_writeFile(St))

ProgramStart == At(St, "program") /\ Commit(program_start(St))

ProgramLoop == At(St, "program_loop") /\ Commit(program_loop(St))

ProgramCheck ==
  /\ At(St, "program_check")
  /\ IF UndeclaredLabels(St) = {}
     THEN Commit(program_check(St, ""))
     ELSE \E label \in UndeclaredLabels(St) : Commit(program_check(St, label))

ProgramWrap == At(St, "program_wrap") /\ Commit(program_wrap(St))

AtStatement(kind) == At(St, "statement") /\ curTokeHasType(St, kind)

StatementPRINT == AtStatement("PRINT") /\ Commit(statement_PRINT(St))

PrintEnd == At(St, "print_end") /\ Commit(print_end(St))

StatementIF == AtStatement("IF") /\ Commit(statement_IF(St))

IfThen == At(St, "if_then") /\ Commit(if_then(St))

IfBody == At(St, "if_body") /\ Commit(if_body(St))

StatementWHILE == AtStatement("WHILE") /\ Commit(statement_WHILE(St))

WhileRepeat == At(St, "while_repeat") /\ Commit(while_repeat(St))

WhileBody == At(St, "while_body") /\ Commit(while_body(St))

StatementLABEL == AtStatement("LABEL") /\ Commit(statement_LABEL(St))

StatementGOTO == AtStatement("GOTO") /\ Commit(statement_GOTO(St))

StatementLET == AtStatement("LET") /\ Commit(statement_LET(St))

LetEnd == At(St, "let_end") /\ Commit(let_end(St))

StatementINPUT == AtStatement("INPUT") /\ Commit(statement_INPUT(St))

StatementInvalid ==
  /\ At(St, "statement")
  /\ curToken.kind \notin StatementKinds
  /\ Commit(statement_invalid(St))

StatementNl == At(St, "statement_nl") /\ Commit(statement_nl(St))

Comparison == At(St, "comparison") /\ Commit(comparison(St))

ComparisonOp == At(St, "comparison_op") /\ Commit(comparison_op(St))

ComparisonLoop == At(St, "comparison_loop") /\ Commit(comparison_loop(St))

Expression == At(St, "expression") /\ Commit(expression(St))

ExpressionLoop == At(St, "expression_loop") /\ Commit(expression_loop(St))

Term == At(St, "term") /\ Commit(term(St))

TermLoop == At(St, "term_loop") /\ Commit(term_loop(St))

Unary == At(St, "unary") /\ Commit(unary(St))

Primary == At(St, "primary") /\ Commit(primary(St))

Next ==
  \/ MainArgs \/ MainLexer \/ MainEmitter \/ MainParser \/ MainProgram
  \/ MainWriteFile
  \/ ProgramStart \/ ProgramLoop \/ ProgramCheck \/ ProgramWrap
  \/ StatementPRINT \/ PrintEnd
  \/ StatementIF \/ IfThen \/ IfBody
  \/ StatementWHILE \/ WhileRepeat \/ WhileBody
  \/ StatementLABEL \/ StatementGOTO
  \/ StatementLET \/ LetEnd
  \/ StatementINPUT
  \/ StatementInvalid
  \/ StatementNl
  \/ Comparison \/ ComparisonOp \/ ComparisonLoop
  \/ Expression \/ ExpressionLoop
  \/ Term \/ TermLoop
  \/ Unary \/ Primary

Spec == Init /\ [][Next]_vars

(***************************************************************************)
(* The Lexer on its own: a Lexer is constructed on a text and its methods  *)
(* getToken and skipCurChar are called, getToken until it has returned the *)
(* EOF token.  The token getToken returns is kept in peekToken, as         *)
(* Parser.skipCurToken keeps it.                                           *)
(***************************************************************************)
MaxLexChars == 3

LexChars ==
  {"=", "!", "<", ">", "\"", "%", "\\", "#", " ", "\t", "\r", "\n", "a"}

LexCharSources == UNION { [1..n -> LexChars] : n \in 0..MaxLexChars }

\* words: the keywords, names of other kinds, and other spellings
Words ==
  { kPRINT, kLET, kINPUT, kIF, kTHEN, kENDIF, kWHILE, kREPEAT, kENDWHILE,
    kLABEL, kGOTO,
    <<"E", "O", "F">>, <<"N", "E", "W", "L", "I", "N", "E">>,
    <<"N", "U", "M", "B", "E", "R">>, <<"I", "D", "E", "N", "T">>,
    <<"S", "T", "R", "I", "N", "G">>, <<"E", "Q">>, <<"P", "L", "U", "S">>,
    <<"M", "I", "N", "U", "S">>, <<"A", "S", "T", "E", "R", "I", "S", "K">>,
    <<"S", "L", "A", "S", "H">>, <<"E", "Q", "E", "Q">>,
    <<"N", "O", "T", "E", "Q">>, <<"L", "T">>, <<"L", "T", "E", "Q">>,
    <<"G", "T">>, <<"G", "T", "E", "Q">>,
    <<"p", "r", "i", "n", "t">>, <<"P", "r", "i", "n", "t">>,
    <<"i", "f">>, <<"I", "f">>, <<"I", "F", "5">>, <<"I">>,
    <<"E", "N", "D">>, <<"L", "E", "T", "x">>, <<"N", "o", "n", "e">>,
    <<"x">> }

\* one word, or two words with a blank between them
WordSources == Words \cup {v \o SP \o w : v \in {kIF, <<"i", "f">>}, w \in Words}

LexSources == LexCharSources \cup WordSources

\* lexer = Lexer(text)
LexerOn(text) == [LexerInit(InitM, text) EXCEPT !.pc = "lexing"]

InitLexer ==
  \E text \in LexSources :
    /\ argc = 2
    /\ fileText = text
    /\ pc = LexerOn(text).pc
    /\ source = LexerOn(text).source
    /\ curPos = LexerOn(text).curPos
    /\ curChar = LexerOn(text).curChar
    /\ curToken = InitM.curToken
    /\ peekToken = InitM.peekToken
    /\ symbolsDeclared = InitM.symbolsDeclared
    /\ labelsDeclared = InitM.labelsDeclared
    /\ labelsGotoed = InitM.labelsGotoed
    /\ header = InitM.header
    /\ code = InitM.code
    /\ curLine = InitM.curLine
    /\ stack = InitM.stack
    /\ err = InitM.err
    /\ outFile = InitM.outFile
    /\ writes = InitM.writes

LexerGetToken ==
  /\ pc = "lexing"
  /\ peekToken.kind # "EOF"
  /\ Commit(SetPeekToken(getToken(St)))

LexerSkipCurChar ==
  /\ pc = "lexing"
  /\ curPos < Len(source)
  /\ Commit(skipCurChar(St))

NextLexer == LexerGetToken \/ LexerSkipCurChar

SpecLexer == InitLexer /\ [][NextLexer]_vars

(***************************************************************************)
(* Helpers of the properties.                                              *)
(***************************************************************************)
\* line is one of the lines of text
HasLine(text, line) ==
  \E i \in 1..(Len(text) - Len(line) + 1) :
    /\ SubSeq(text, i, i + Len(line) - 1) = line
    /\ i = 1 \/ text[i - 1] = NEWLINE
    /\ i + Len(line) - 1 = Len(text) \/ text[i + Len(line)] = NEWLINE

\* the number of lines of seq equal to line
Count(seq, line) == Cardinality({i \in DOMAIN seq : seq[i] = line})

DeclLine(name) == "float " \o name \o ";"

Prologue == <<"#include <stdio.h>", "int main(void){">>

Succeeded == pc = "done"

Aborted == pc = "aborted"

\* parser.program() is past its check of the GOTO'ed labels
PastLabelCheck ==
  At(St, "program_wrap") \/ ProgramReturned(St) \/ Succeeded

UndeclaredLabelError(label) ==
  "Error. Attempting to GOTO to undeclared label: " \o label

C1_State ==
  /\ PastLabelCheck => labelsGotoed \subseteq labelsDeclared
  /\ Count(code, "return 0;") > 0 => labelsGotoed \subseteq labelsDeclared

C1_Step ==
  At(St, "program_check") /\ UndeclaredLabels(St) # {} =>
    /\ pc' = "aborted"
    /\ \E label \in labelsGotoed \ labelsDeclared :
         err' = UndeclaredLabelError(label)
    /\ code' = code /\ curLine' = curLine
    /\ Count(code', "return 0;") = 0

(***************************************************************************)
(* C1: whenever program() gets past its check of the labels, and so        *)
(* whenever it returns, labelsGotoed is a subset of labelsDeclared; when   *)
(* the check runs with some GOTO'ed name not declared, the step exits      *)
(* with the undeclared-label error for such a name, and "return 0;" is     *)
(* never emitted.                                                          *)
(***************************************************************************)
C1_LabelsReconciled == []C1_State /\ [][C1_Step]_vars

C1_Witness ==
  /\ Aborted
  /\ err = UndeclaredLabelError("b")
  /\ labelsDeclared = {"a"}
  /\ labelsGotoed = {"a", "b"}

(***************************************************************************)
(* C2: writeFile is called at most once, and only after program() has      *)
(* returned normally (the body then ends with "return 0;" and "}"); a run  *)
(* that has exited has written nothing.                                    *)
(***************************************************************************)
C2_WrittenOnceAfterSuccess ==
  /\ writes \in {0, 1}
  /\ writes = 0 => outFile = <<>>
  /\ writes = 1 =>
       /\ Succeeded /\ err = "" /\ stack = <<>>
       /\ Len(code) >= 2
       /\ code[Len(code) - 1] = "return 0;"
       /\ code[Len(code)] = "}"
  /\ err # "" => Aborted /\ writes = 0 /\ outFile = <<>>
  /\ Aborted => err # ""

C2_Witness == Succeeded /\ writes = 1 /\ Len(outFile) > 4

DeclarationLines == {i \in DOMAIN header : header[i] \notin
                                             {Prologue[1], Prologue[2]}}

C3_State ==
  /\ \A name \in symbolsDeclared : Count(header, DeclLine(name)) = 1
  /\ Cardinality(DeclarationLines) = Cardinality(symbolsDeclared)

C3_Step ==
  IF symbolsDeclared' = symbolsDeclared
  THEN \/ header' = header
       \/ At(St, "program") /\ header' = header \o Prologue
  ELSE /\ AtStatement("LET") \/ AtStatement("INPUT")
       /\ \E name \in symbolsDeclared' \ symbolsDeclared :
            /\ symbolsDeclared' = symbolsDeclared \cup {name}
            /\ header' = Append(header, DeclLine(name))

(***************************************************************************)
(* C3: every declared variable has exactly one "float <name>;" line in the *)
(* header, the header has as many declaration lines as symbolsDeclared     *)
(* has names, and a step that declares no new name leaves the              *)
(* declarations as they are.                                               *)
(***************************************************************************)
C3_OneDeclarationPerVariable == []C3_State /\ [][C3_Step]_vars

C3_Witness ==
  /\ Succeeded
  /\ symbolsDeclared = {"x", "y"}
  /\ Count(code, "x = 5;") = 1
  /\ Count(code, "y = 0;") = 1
  /\ Count(code, "y = -x*2+1.5;") = 1
  /\ header = Prologue \o <<"float x;", "float y;">>

UndeclaredVariableError(name) ==
  "Error. Referencing variable before assignment: " \o name

PrintX == kPRINT \o SP \o <<"x">>

C4_State ==
  /\ fileText = PrintX => ~Succeeded /\ writes = 0
  /\ fileText = PrintX /\ Aborted => err = UndeclaredVariableError("x")

C4_Step ==
  /\ At(St, "primary")
  /\ curTokeHasType(St, "IDENT")
  /\ curToken.text \notin symbolsDeclared
  => /\ pc' = "aborted"
     /\ err' = UndeclaredVariableError(curToken.text)
     /\ curToken' = curToken
     /\ header' = header /\ code' = code /\ curLine' = curLine
     /\ writes' = 0 /\ outFile' = <<>>

(***************************************************************************)
(* C4: when primary() runs at an IDENT that is not in symbolsDeclared, the *)
(* step exits with the undeclared-variable error for that token, emits     *)
(* nothing and nothing is written; the program "PRINT x" alone never       *)
(* compiles.                                                               *)
(***************************************************************************)
C4_UndeclaredVariableAborts == []C4_State /\ [][C4_Step]_vars

C4_Witness ==
  /\ fileText = PrintX
  /\ Aborted
  /\ err = UndeclaredVariableError("x")
  /\ curToken = Token("x", "IDENT")

C5_State ==
  /\ header # <<>> => Len(header) >= 2 /\ SubSeq(header, 1, 2) = Prologue
  /\ \A i \in DOMAIN header :
       i > 2 => \E name \in symbolsDeclared : header[i] = DeclLine(name)
  /\ \A name \in symbolsDeclared :
       /\ Count(code, DeclLine(name)) = 0
       /\ curLine # DeclLine(name)
  /\ Succeeded => outFile = header \o code /\ curLine = ""

C5_Step ==
  header' # header =>
    \/ At(St, "program") /\ header = <<>> /\ header' = Prologue
    \/ \E name \in symbolsDeclared' \ symbolsDeclared :
         header' = Append(header, DeclLine(name))

(***************************************************************************)
(* C5: the header holds the two prologue lines followed by declarations    *)
(* only, appended in the order the names are first declared; no body line  *)
(* is a declaration; the written output is the header followed by the      *)
(* body.                                                                   *)
(***************************************************************************)
C5_DeclarationsPrecedeStatements == []C5_State /\ [][C5_Step]_vars

C5_Witness ==
  /\ Succeeded
  /\ outFile = Prologue \o <<"float x;", "while(1<2){", "x = 5;", "}",
                             "return 0;", "}">>

ComparisonOperators == {"EQEQ", "NOTEQ", "GT", "GTEQ", "LT", "LTEQ"}

IfOneThen == kIF \o SP \o <<"1">> \o SP \o kTHEN

C6_State == HasLine(fileText, IfOneThen) => ~Succeeded /\ writes = 0

C6_Step ==
  At(St, "comparison_op") =>
    IF curToken.kind \in ComparisonOperators
    THEN \/ /\ err' = ""
            /\ curLine' = curLine \o curToken.text
            /\ Top(St') = "expression"
         \/ /\ pc' = "aborted" /\ curToken' = peekToken
    ELSE /\ pc' = "aborted"
         /\ err' = "Error. Expected comparison operator at: "
                     \o curToken.text
         /\ curLine' = curLine /\ code' = code

(***************************************************************************)
(* C6: when comparison() has parsed its first expression and the current   *)
(* token is no comparison operator, the step exits with the syntax error   *)
(* naming that token; with a comparison operator it emits the operator     *)
(* and goes on to the next expression.  A source with the line "IF 1 THEN" *)
(* never compiles.                                                         *)
(***************************************************************************)
C6_ComparatorRequired == []C6_State /\ [][C6_Step]_vars

C6_Witness ==
  /\ Aborted
  /\ err = "Error. Expected comparison operator at: THEN"
  /\ curLine = "if(1"

DuplicateLabelError(name) == "Error. Label already exists: " \o name

\* m is the machine after the first skipCurToken of the LABEL statement
C7_AfterSkip(m) ==
  Running(m) =>
    IF m.curToken.text \in labelsDeclared
    THEN /\ pc' = "aborted"
         /\ err' = DuplicateLabelError(m.curToken.text)
         /\ labelsDeclared' = labelsDeclared
         /\ code' = code
    ELSE /\ labelsDeclared' = labelsDeclared \cup {m.curToken.text}
         /\ code' = Append(code, m.curToken.text \o ":")
         /\ err' # DuplicateLabelError(m.curToken.text)

C7_Step == AtStatement("LABEL") => C7_AfterSkip(skipCurToken(St, None))

C7_State ==
  \A name \in labelsDeclared :
    /\ Count(code, name \o ":") = 1
    /\ Succeeded => Count(outFile, name \o ":") = 1

(***************************************************************************)
(* C7: a LABEL statement whose name is already in labelsDeclared exits     *)
(* with the duplicate-label error and changes neither the set nor the      *)
(* body; otherwise it adds the name and appends the line "<name>:".  Every *)
(* declared label has exactly one such line in the body, and in the        *)
(* written output.                                                         *)
(***************************************************************************)
C7_LabelDeclaredOnce == []C7_State /\ [][C7_Step]_vars

C7_Witness ==
  /\ Aborted
  /\ err = DuplicateLabelError("a")
  /\ labelsDeclared = {"a"}
  /\ code = <<"a:">>

GotoThenLabel ==
  kGOTO \o SP \o <<"a">> \o <<NEWLINE>> \o kLABEL \o SP \o <<"a">>

\* m is the machine after the first skipCurToken of the GOTO statement
C8_AfterSkip(m) ==
  Running(m) =>
    /\ labelsGotoed' = labelsGotoed \cup {m.curToken.text}
    /\ labelsDeclared' = labelsDeclared
    /\ code' = Append(code, "goto " \o m.curToken.text \o ";")
    /\ err' = skipCurToken(m, "IDENT").err

C8_Step == AtStatement("GOTO") => C8_AfterSkip(skipCurToken(St, None))

C8_State ==
  /\ fileText = GotoThenLabel => ~Aborted
  /\ \A label \in labelsGotoed :
       err = UndeclaredLabelError(label) => curTokeHasType(St, "EOF")

(***************************************************************************)
(* C8: a GOTO statement records its name in labelsGotoed and appends       *)
(* "goto <name>;" whether or not the name is declared, and exits only      *)
(* where its skipCurToken(IDENT) does; the undeclared-label error is       *)
(* raised only when the current token is EOF; the source "GOTO a" followed *)
(* by "LABEL a" compiles.                                                  *)
(***************************************************************************)
C8_ForwardGotoAllowed == []C8_State /\ [][C8_Step]_vars

C8_Witness ==
  /\ fileText = GotoThenLabel
  /\ Succeeded
  /\ outFile = Prologue \o <<"goto a;", "a:", "return 0;", "}">>

(***************************************************************************)
(* One step of the whole program as a function of the machine, where label *)
(* is the name the loop over the set labelsGotoed meets first, and the run *)
(* to the end that resolves this iteration order by a fixed choice.        *)
(***************************************************************************)
StatementStep(m) ==
  CASE curTokeHasType(m, "PRINT") -> statement_PRINT(m)
    [] curTokeHasType(m, "IF") -> statement_IF(m)
    [] curTokeHasType(m, "WHILE") -> statement_WHILE(m)
    [] curTokeHasType(m, "LABEL") -> statement_LABEL(m)
    [] curTokeHasType(m, "GOTO") -> statement_GOTO(m)
    [] curTokeHasType(m, "LET") -> statement_LET(m)
    [] curTokeHasType(m, "INPUT") -> statement_INPUT(m)
    [] OTHER -> statement_invalid(m)

ParserStep(m, label) ==
  CASE Top(m) = "program" -> program_start(m)
    [] Top(m) = "program_loop" -> program_loop(m)
    [] Top(m) = "program_check" -> program_check(m, label)
    [] Top(m) = "program_wrap" -> program_wrap(m)
    [] Top(m) = "statement" -> StatementStep(m)
    [] Top(m) = "print_end" -> print_end(m)
    [] Top(m) = "if_then" -> if_then(m)
    [] Top(m) = "if_body" -> if_body(m)
    [] Top(m) = "while_repeat" -> while_repeat(m)
    [] Top(m) = "while_body" -> while_body(m)
    [] Top(m) = "let_end" -> let_end(m)
    [] Top(m) = "statement_nl" -> statement_nl(m)
    [] Top(m) = "comparison" -> comparison(m)
    [] Top(m) = "comparison_op" -> comparison_op(m)
    [] Top(m) = "comparison_loop" -> comparison_loop(m)
    [] Top(m) = "expression" -> expression(m)
    [] Top(m) = "expression_loop" -> expression_loop(m)
    [] Top(m) = "term" -> term(m)
    [] Top(m) = "term_loop" -> term_loop(m)
    [] Top(m) = "unary" -> unary(m)
    [] Top(m) = "primary" -> primary(m)

Step(m, label) ==
  CASE m.pc = "main" -> main_args(m)
    [] m.pc = "lexer" -> main_lexer(m)
    [] m.pc = "emitter" -> main_emitter(m)
    [] m.pc = "parser" -> main_parser(m)
    [] m.pc = "program" -> main_program(m)
    [] ProgramReturned(m) -> main_writeFile(m)
    [] m.pc = "parsing" /\ m.stack # <<>> -> ParserStep(m, label)
    [] OTHER -> m

FirstLabel(m) ==
  IF UndeclaredLabels(m) = {} THEN ""
  ELSE CHOOSE label \in UndeclaredLabels(m) : TRUE

RECURSIVE Run(_)
Run(m) ==
  IF m.pc \in {"done", "aborted"} THEN m ELSE Run(Step(m, FirstLabel(m)))

SameOutcome(a, b) ==
  /\ a.pc = b.pc
  /\ a.pc = "done" =>
       a.header = b.header /\ a.code = b.code /\ a.outFile = b.outFile

(***************************************************************************)
(* C9: whichever order the set labelsGotoed is iterated in, a run on a     *)
(* source ends as the run with the fixed order ends: both succeed or both  *)
(* exit, and when they succeed the header, the body and the written output *)
(* are the same.                                                           *)
(***************************************************************************)
C9_Deterministic == Succeeded \/ Aborted => SameOutcome(St, Run(InitM))

\* a run that exits for a label other than the one the fixed order reports
C9_Witness ==
  /\ Aborted
  /\ labelsGotoed = {"a", "b"}
  /\ labelsDeclared = {}
  /\ err # Run(InitM).err

CharAt(p) == IF p >= Len(source) THEN EOFCH ELSE source[p + 1]

RECURSIVE AfterBlanks(_)
AfterBlanks(p) == IF CharAt(p) \in WHITESPACE THEN AfterBlanks(p + 1) ELSE p

RECURSIVE AfterDigits(_)
AfterDigits(p) == IF CharAt(p) \in Digits THEN AfterDigits(p + 1) ELSE p

NumberAhead == CharAt(AfterBlanks(curPos)) \in Digits

\* the position after the leading digits of the next token
DotPos == AfterDigits(AfterBlanks(curPos))

BadNumberAhead ==
  NumberAhead /\ CharAt(DotPos) = "." /\ CharAt(DotPos + 1) \notin Digits

\* the position after the literal
LiteralEnd ==
  IF CharAt(DotPos) = "." THEN AfterDigits(DotPos + 1) ELSE DotPos

LetXFiveDot == kLET \o SP \o <<"x", " ", "=", " ", "5", ".">>

NumberError == "Lexing error. Illegal character in number."

C10_State == HasLine(fileText, LetXFiveDot) => ~Succeeded /\ writes = 0

C10_Step ==
  pc \in {"parser", "parsing"} /\ curPos' # curPos /\ NumberAhead =>
    IF BadNumberAhead
    THEN pc' = "aborted" /\ err' = NumberError
    ELSE /\ Token(Slice(source, AfterBlanks(curPos), LiteralEnd), "NUMBER")
              \in {curToken', peekToken'}

(***************************************************************************)
(* C10: when the next token starts with a run of digits followed by '.'    *)
(* and a character that is no digit, the step that reads it exits with the *)
(* lexical error of numbers; a run of digits, optionally followed by '.'   *)
(* and one or more digits, is read as one NUMBER token with exactly that   *)
(* text.  A source with the line "LET x = 5." never compiles.              *)
(***************************************************************************)
C10_NumberLiteral == []C10_State /\ [][C10_Step]_vars

C10_Witness ==
  /\ HasLine(fileText, LetXFiveDot)
  /\ Aborted
  /\ err = NumberError
  /\ curToken = Token("=", "EQ")

(***************************************************************************)
(* Helpers of the properties of the lexer: positions in the buffer.        *)
(***************************************************************************)
RECURSIVE LineEnd(_)
\* the position of the first newline at or after p
LineEnd(p) ==
  IF CharAt(p) \in {NEWLINE, EOFCH} THEN p ELSE LineEnd(p + 1)

AfterComment(p) == IF CharAt(p) = "#" THEN LineEnd(p) ELSE p

\* where the next token starts: after blanks and a comment
TokenStart == AfterComment(AfterBlanks(curPos))

RECURSIVE AfterAlnums(_)
AfterAlnums(p) ==
  IF CharAt(p) \in Letters \cup Digits THEN AfterAlnums(p + 1) ELSE p

\* the word that starts at TokenStart
WordAhead == Slice(source, TokenStart, AfterAlnums(TokenStart))

SourceChars == {source[i] : i \in DOMAIN source} \cup {EOFCH}

\* message is one of the messages Lexer.abort can exit with on this source
IsLexingError(message) ==
  \/ message = "Lexing error. Illegal character in number."
  \/ message = "Lexing error. Illegal character in string."
  \/ \E c \in SourceChars :
       \/ message = "Lexing error. Expected !=, got !" \o c
       \/ message = "Lexing error. Unknow token: " \o c

KeywordNames ==
  {"LABEL", "GOTO", "PRINT", "INPUT", "LET", "IF", "THEN", "ENDIF", "WHILE",
   "REPEAT", "ENDWHILE"}

\* the text of the file, when the file is one word
FileWord == Slice(fileText, 0, Len(fileText))

C11_State ==
  /\ fileText \in Words =>
       mapTextToKeywordType(FileWord) =
         IF FileWord \in KeywordNames THEN FileWord ELSE None
  /\ peekToken.kind \in KeywordNames => peekToken.text = peekToken.kind
  /\ peekToken.kind = "IDENT" => peekToken.text \notin KeywordNames

C11_Step ==
  LexerGetToken /\ CharAt(TokenStart) \in Letters =>
    /\ peekToken' = Token(WordAhead, IF WordAhead \in KeywordNames
                                     THEN WordAhead ELSE "IDENT")
    /\ curPos' = AfterAlnums(TokenStart)
    /\ err' = "" /\ pc' = pc
    /\ UNCHANGED <<source, curToken, symbolsDeclared, labelsDeclared,
                   labelsGotoed, header, code, curLine, stack, outFile,
                   writes>>

(***************************************************************************)
(* C11: mapTextToKeywordType(text) is text when text is, letter for        *)
(* letter, the name of one of the eleven keywords, and None for every      *)
(* other text, the names of the other kinds included; getToken on a word   *)
(* returns the keyword kind in the first case and IDENT in the second,     *)
(* with the word as text, never exits there and changes nothing but the    *)
(* lexer's position.                                                       *)
(***************************************************************************)
C11_KeywordLookup == []C11_State /\ [][C11_Step]_vars

C11_Witness ==
  /\ pc = "lexing"
  /\ fileText = <<"i", "f">> \o SP \o <<"P", "L", "U", "S">>
  /\ peekToken = Token("PLUS", "IDENT")

CommentLine == <<"#", "c">>

\* the file is two statements of Lines written on one line
TwoStatementsOnOneLine ==
  \E a \in Lines \ {CommentLine}, b \in Lines \ {CommentLine} :
    HasLine(fileText, a \o SP \o b)

\* the calls of statement() return to these places
StatementCallers == {"program_loop", "if_body", "while_body"}

C12_State ==
  /\ pc = "parsing" /\ Top(St) \in StatementCallers =>
       ~curTokeHasType(St, "NEWLINE")
  /\ Succeeded => ~TwoStatementsOnOneLine

C12_Step ==
  /\ At(St, "statement_nl") =>
       IF curTokeHasType(St, "NEWLINE")
       THEN \/ pc' = "aborted" /\ IsLexingError(err')
            \/ /\ err' = "" /\ ~curTokeHasType(St', "NEWLINE")
               /\ stack' = SubSeq(stack, 1, Len(stack) - 1)
       ELSE /\ pc' = "aborted"
            /\ err' = "Error. Expected NEWLINE, got " \o curToken.kind
            /\ UNCHANGED <<curToken, peekToken, curPos, code, curLine>>
  /\ pc = "parsing" /\ pc' = "parsing" /\ Len(stack') < Len(stack)
       /\ Top(St') \in StatementCallers => At(St, "statement_nl")

(***************************************************************************)
(* C12: statement() ends with nl(): at that point a current token other    *)
(* than NEWLINE exits with "Expected NEWLINE"; with a NEWLINE the call     *)
(* returns with a current token that is no NEWLINE, unless the lexer       *)
(* exits.  statement() returns to its caller from nowhere else, so the     *)
(* loops that call it never see a NEWLINE as the current token, and a file *)
(* with two statements on one line never compiles.                         *)
(***************************************************************************)
C12_StatementEndsLine == []C12_State /\ [][C12_Step]_vars

C12_Witness ==
  /\ Aborted
  /\ err = "Error. Expected NEWLINE, got PRINT"
  /\ code = <<"x = 5;">>
  /\ stack = <<>>

\* the IF and WHILE blocks that are open: the calls of statement() that
\* are in the loop of a body
Blocks(m) ==
  Cardinality({i \in DOMAIN m.stack : m.stack[i] \in {"if_body", "while_body"}})

RECURSIVE Strip(_, _)
\* the characters of source[a:b] that are no blanks, as text
Strip(a, b) ==
  IF a >= b THEN ""
  ELSE IF source[a + 1] \in WHITESPACE THEN Strip(a + 1, b)
  ELSE source[a + 1] \o Strip(a + 1, b)

\* the positions where the word w ends, and where it starts
EndsOf(w) ==
  {p \in Len(w)..Len(source) : SubSeq(source, p - Len(w) + 1, p) = w}

StartsOf(w) ==
  {p \in 0..(Len(source) - Len(w)) : SubSeq(source, p + 1, p + Len(w)) = w}

\* the lines that can open a block of this source: "if(" or "while("
\* followed by the text between the keyword and THEN or REPEAT, and "){"
OpenLines ==
  {"if(" \o Strip(a, b) \o "){" : a \in EndsOf(kIF), b \in StartsOf(kTHEN)}
  \cup {"while(" \o Strip(a, b) \o "){" :
           a \in EndsOf(kWHILE), b \in StartsOf(kREPEAT)}

Opens(lines) == Cardinality({i \in DOMAIN lines : lines[i] \in OpenLines})

\* one line of each INPUT statement
Inputs(lines) == Count(lines, "scanf(\"%*s\");")

\* the step at THEN or REPEAT (keyword), entering the body at label
C13_Open(keyword, label) ==
  IF curTokeHasType(St, keyword)
  THEN \/ pc' = "aborted" /\ IsLexingError(err')
       \/ /\ pc' = "aborted"
          /\ ~(peekToken.kind = "NEWLINE")
          /\ err' = "Error. Expected NEWLINE, got " \o peekToken.kind
       \/ /\ pc' = "parsing"
          /\ peekToken.kind = "NEWLINE"
          /\ code' = Append(code, curLine \o "){")
          /\ Top(St') = label
          /\ Blocks(St') = Blocks(St) + 1
          /\ Len(stack') = Len(stack)
  ELSE /\ pc' = "aborted"
       /\ err' = "Error. Expected " \o keyword \o ", got " \o curToken.kind
       /\ code' = code

\* the step at the head of the loop of a body that closer closes
C13_Body(closer) ==
  IF curTokeHasType(St, closer)
  THEN \/ pc' = "aborted" /\ IsLexingError(err')
       \/ /\ pc' = "parsing"
          /\ code' = Append(code, curLine \o "}")
          /\ Top(St') = "statement_nl"
          /\ Blocks(St') = Blocks(St) - 1
          /\ Len(stack') = Len(stack)
  ELSE /\ stack' = Append(stack, "statement")
       /\ UNCHANGED <<code, curLine, curToken, peekToken, err>>

C13_Step ==
  /\ At(St, "if_then") => C13_Open("THEN", "if_body")
  /\ At(St, "while_repeat") => C13_Open("REPEAT", "while_body")
  /\ At(St, "if_body") => C13_Body("ENDIF")
  /\ At(St, "while_body") => C13_Body("ENDWHILE")
  /\ At(St, "statement")
       /\ curToken.kind \in {"ENDIF", "ENDWHILE", "THEN", "REPEAT", "EOF"} =>
         /\ pc' = "aborted"
         /\ err' = "Error. Invalid statement at " \o curToken.text \o " ("
                      \o curToken.kind \o ")"
  /\ pc' = "parsing" /\ Blocks(St') # Blocks(St) =>
       \/ At(St, "if_then") \/ At(St, "while_repeat")
       \/ At(St, "if_body") \/ At(St, "while_body")
  /\ Count(code', "}") # Count(code, "}") =>
       \/ At(St, "if_body") \/ At(St, "while_body")
       \/ At(St, "program_wrap") \/ AtStatement("INPUT")

C13_State ==
  /\ pc = "parsing" /\ Top(St) \in {"program_check", "program_wrap"} =>
       Blocks(St) = 0 /\ curTokeHasType(St, "EOF")
  /\ pc = "parsing" /\ curTokeHasType(St, "EOF") /\ Blocks(St) > 0 =>
       Top(St) # "program_loop"
  /\ Succeeded =>
       Count(code, "}") = Opens(code) + Inputs(code) + 1

(***************************************************************************)
(* C13: a block is opened only by the step at THEN (REPEAT) after the      *)
(* comparison of an IF (WHILE), which exits unless that keyword and then a *)
(* NEWLINE follow, and appends the line ending in "){"; it is closed only  *)
(* by the step at its own closer, which appends one "}" line; in a body    *)
(* any other token, the other closer and EOF included, starts a statement, *)
(* and statement() exits at a closer, at THEN, REPEAT and EOF.  program()  *)
(* reaches its end with no block open, and on success the "}" lines of the *)
(* body are one for every "){" line, one for every INPUT statement and the *)
(* one that closes main.                                                   *)
(***************************************************************************)
C13_BlocksNested == []C13_State /\ [][C13_Step]_vars

\* the statement without the "}" lines of INPUT and of main: the "}" lines
\* are as many as the "){" lines, counted in the body or, with the line
\* that opens main, in the whole output
C13_OneCloserPerOpener ==
  Succeeded =>
    \/ Count(code, "}") = Opens(code)
    \/ Count(outFile, "}") = Opens(outFile) + Count(outFile, Prologue[2])

C13_Witness ==
  /\ Succeeded
  /\ code = <<"while(1<2){", "if(1<2){", "}", "}", "return 0;", "}">>

\* the segments of comparison(), expression(), term(), unary(), primary()
ExprLabels ==
  {"comparison", "comparison_op", "comparison_loop", "expression",
   "expression_loop", "term", "term_loop", "unary", "primary"}

\* the kinds of the tokens of expressions and comparisons
ExprKinds ==
  {"NUMBER", "IDENT", "PLUS", "MINUS", "ASTERISK", "SLASH"}
  \cup ComparisonOperators

RECURSIVE TextEnd(_)
\* the first position at or after p of a comment or of the end of the line
TextEnd(p) ==
  IF CharAt(p) \in {HASHMARK, NEWLINE, EOFCH} THEN p ELSE TextEnd(p + 1)

\* the file starts with the words of head
StartsWith(head) ==
  Len(fileText) >= Len(head) /\ SubSeq(fileText, 1, Len(head)) = head

\* the keyword w starts at b, on the first line
OnFirstLine(w) == {b \in StartsOf(w) : b < TextEnd(0)}

C14_State ==
  /\ At(St, "let_end") /\ code = <<>> /\ StartsWith(LetHead)
       /\ curTokeHasType(St, "NEWLINE") =>
         curLine = "x = " \o Strip(Len(LetHead), TextEnd(0))
  /\ At(St, "while_repeat") /\ code = <<>> /\ StartsWith(kWHILE \o SP)
       /\ curTokeHasType(St, "REPEAT") =>
         \E b \in OnFirstLine(kREPEAT) :
           curLine = "while(" \o Strip(Len(kWHILE), b)
  /\ At(St, "if_then") /\ code = <<>> /\ StartsWith(kIF \o SP)
       /\ curTokeHasType(St, "THEN") =>
         \E b \in OnFirstLine(kTHEN) :
           curLine = "if(" \o Strip(Len(kIF), b)

C14_Step ==
  pc = "parsing" /\ Top(St) \in ExprLabels /\ pc' = "parsing" =>
    /\ code' = code
    /\ \/ UNCHANGED <<curLine, curToken, peekToken, curPos>>
       \/ /\ curToken.kind \in ExprKinds
          /\ curLine' = curLine \o curToken.text
          /\ curToken' = peekToken
          /\ curPos' > curPos

(***************************************************************************)
(* C14: a step of comparison(), expression(), term(), unary() or primary() *)
(* either consumes no token and emits nothing, or consumes the current     *)
(* token, a number, an identifier, an operator or a comparator, and        *)
(* appends exactly its text to the body line under construction.  When the *)
(* expression of a first-line "LET x =" is accepted up to the end of the   *)
(* line, the line under construction is "x = " followed by the characters  *)
(* of the source from the "=" to the end of the line without the blanks;   *)
(* likewise for the comparison between WHILE and REPEAT, and IF and THEN.  *)
(***************************************************************************)
C14_LexemesInOrder == []C14_State /\ [][C14_Step]_vars

C14_Witness ==
  /\ At(St, "let_end")
  /\ fileText = LetHead \o <<" ", "1", "+", "x">>
  /\ curLine = "x = 1+x"

C15_State ==
  /\ curPos >= 0
  /\ curChar = CharAt(curPos)
  /\ peek(St) = CharAt(curPos + 1)

C15_Step ==
  /\ curPos' >= curPos
  /\ source' = source
  /\ LexerSkipCurChar =>
       /\ curPos' = curPos + 1
       /\ curChar' = CharAt(curPos + 1)
       /\ curChar' = peek(St)
       /\ UNCHANGED <<peekToken, curToken, err, pc>>
  /\ LexerGetToken /\ err' = "" => curPos' > curPos

(***************************************************************************)
(* C15: no step of the lexer lowers curPos or changes the buffer;          *)
(* skipCurChar raises curPos by exactly 1 and makes curChar the character  *)
(* peek() returned before it; peek() is the character at curPos + 1, or    *)
(* the end-of-input character when that is outside the buffer; curChar is  *)
(* the character at curPos, or the end-of-input character when curPos is   *)
(* outside the buffer.                                                     *)
(***************************************************************************)
C15_PositionAdvances == []C15_State /\ [][C15_Step]_vars

C15_Witness ==
  /\ pc = "lexing"
  /\ curPos = Len(source) + 1
  /\ curChar = EOFCH
  /\ peekToken = Token(EOFCH, "EOF")
  /\ fileText = <<"a", " ", "#">>

\* the kinds of the operators that start with c, alone and before '='
SingleKind(c) == CASE c = "=" -> "EQ" [] c = ">" -> "GT" [] c = "<" -> "LT"

DoubleKind(c) ==
  CASE c = "=" -> "EQEQ" [] c = ">" -> "GTEQ" [] c = "<" -> "LTEQ"
    [] c = "!" -> "NOTEQ"

\* getToken has returned token and left the lexer at position p
C16_Returned(token, p) ==
  /\ peekToken' = token
  /\ curPos' = p
  /\ err' = "" /\ pc' = pc

C16_Step ==
  /\ LexerGetToken /\ CharAt(TokenStart) \in {"=", ">", "<"} =>
       IF CharAt(TokenStart + 1) = "="
       THEN C16_Returned(Token(CharAt(TokenStart) \o "=",
                               DoubleKind(CharAt(TokenStart))),
                         TokenStart + 2)
       ELSE C16_Returned(Token(CharAt(TokenStart),
                               SingleKind(CharAt(TokenStart))),
                         TokenStart + 1)
  /\ LexerGetToken /\ CharAt(TokenStart) = "!" =>
       IF CharAt(TokenStart + 1) = "="
       THEN C16_Returned(Token("!=", "NOTEQ"), TokenStart + 2)
       ELSE /\ pc' = "aborted"
            /\ err' = "Lexing error. Expected !=, got !"
                         \o CharAt(TokenStart + 1)
            /\ peekToken' = peekToken

C16_State ==
  /\ peekToken.kind \in {"EQ", "GT", "LT"} =>
       /\ peekToken.text \in {"=", ">", "<"}
       /\ peekToken.kind = SingleKind(peekToken.text)
  /\ peekToken.kind \in {"EQEQ", "GTEQ", "LTEQ", "NOTEQ"} =>
       \E c \in {"=", ">", "<", "!"} :
         peekToken.text = c \o "=" /\ peekToken.kind = DoubleKind(c)

(***************************************************************************)
(* C16: when the next token starts with '=', '>' or '<', getToken returns  *)
(* EQEQ, GTEQ or LTEQ with the two characters as text and goes past both   *)
(* exactly when the character after it is '='; otherwise it returns EQ, GT *)
(* or LT with the one character and goes past it.  When it starts with '!' *)
(* getToken returns NOTEQ with text "!=" if '=' follows, and exits with    *)
(* the lexical error naming the character that follows otherwise.          *)
(***************************************************************************)
C16_OperatorLookahead == []C16_State /\ [][C16_Step]_vars

C16_Witness ==
  /\ Aborted
  /\ fileText = <<"<", "=", "!">>
  /\ peekToken = Token("<=", "LTEQ")
  /\ err = "Lexing error. Expected !=, got !\n"

StringError == "Lexing error. Illegal character in string."

\* the characters that stop the scan of a string
StringStops == {DOUBLEQUOTE, "\r", "\n", "\t", "\\", "%", EOFCH}

RECURSIVE StringStop(_)
\* the first position at or after p of a character that stops the scan
StringStop(p) == IF CharAt(p) \in StringStops THEN p ELSE StringStop(p + 1)

C17_Step ==
  LexerGetToken /\ CharAt(TokenStart) = DOUBLEQUOTE =>
    IF CharAt(StringStop(TokenStart + 1)) = DOUBLEQUOTE
    THEN /\ peekToken' = Token(Slice(source, TokenStart + 1,
                                     StringStop(TokenStart + 1)), "STRING")
         /\ curPos' = StringStop(TokenStart + 1) + 1
         /\ err' = "" /\ pc' = pc
    ELSE /\ pc' = "aborted"
         /\ err' = StringError
         /\ peekToken' = peekToken
         /\ curPos' = StringStop(TokenStart + 1)
         /\ curPos' <= LineEnd(TokenStart)
         /\ curPos' < Len(source)

C17_State ==
  /\ err = StringError =>
       curPos < Len(source) /\ curChar \in {"\r", "\n", "\t", "\\", "%"}
  /\ curPos <= Len(source) + 1

(***************************************************************************)
(* C17: when the next token starts with a double quote, getToken scans to  *)
(* the first double quote, carriage return, newline, tab, backslash or     *)
(* percent after it: at a double quote it returns a STRING token whose     *)
(* text is exactly the characters between the two quotes and goes past the *)
(* closing quote; at any of the others it exits with the lexical error of  *)
(* strings, at that character, which is at or before the end of the line   *)
(* and inside the buffer.                                                  *)
(***************************************************************************)
C17_StringLiteral == []C17_State /\ [][C17_Step]_vars

C17_Witness ==
  /\ Aborted
  /\ fileText = <<"\"", "a", "a">>
  /\ err = StringError
  /\ curPos = Len(source) - 1
  /\ curChar = NEWLINE

\* the number of newline characters of source[a:b]
NewlinesIn(a, b) ==
  Cardinality({p \in a..(b - 1) : CharAt(p) = NEWLINE})

\* every character of source[a:b] is a blank
AllBlanks(a, b) == \A p \in a..(b - 1) : CharAt(p) \in {" ", "\t", "\r"}

C18_Step ==
  LexerGetToken =>
    /\ AllBlanks(curPos, AfterBlanks(curPos))
    /\ NewlinesIn(curPos, TokenStart) = 0
    /\ CharAt(AfterBlanks(curPos)) = HASHMARK =>
         /\ CharAt(TokenStart) = NEWLINE
         /\ TokenStart = LineEnd(curPos)
    /\ CharAt(TokenStart) = NEWLINE =>
         /\ peekToken' = Token(NEWLINE, "NEWLINE")
         /\ curPos' = TokenStart + 1
         /\ err' = ""
    /\ err' = "" =>
         /\ curPos' > TokenStart
         /\ NewlinesIn(curPos, curPos') =
              IF peekToken'.kind = "NEWLINE" THEN 1 ELSE 0

C18_State == peekToken.kind = "NEWLINE" => peekToken.text = NEWLINE

(***************************************************************************)
(* C18: a call of getToken first goes past blanks (space, tab, carriage    *)
(* return) and then, at a '#', past the characters up to the end of the    *)
(* line, never past a newline; at a newline it returns a NEWLINE token and *)
(* goes past that one character.  The characters a call that returns goes  *)
(* past hold one newline if the token is NEWLINE and none otherwise, so    *)
(* every newline read gives exactly one NEWLINE token, also after a        *)
(* comment.                                                                *)
(***************************************************************************)
C18_NewlineKept == []C18_State /\ [][C18_Step]_vars

C18_Witness ==
  /\ pc = "lexing"
  /\ fileText = <<"a", "#", "a">>
  /\ peekToken = Token(NEWLINE, "NEWLINE")
  /\ curPos = Len(source)

\* the run of main() on a file that holds text, from its start to its end
Compile(text) == Run([LexerInit(InitM, text) EXCEPT !.pc = "emitter"])

\* the runs a and b end alike: both succeed with the same output, or both
\* exit with the same message (for an undeclared label: with the message
\* for one of the same undeclared labels)
SameCompilation(a, b) ==
  /\ a.pc = b.pc
  /\ a.writes = b.writes
  /\ a.outFile = b.outFile
  /\ a.header = b.header /\ a.code = b.code /\ a.curLine = b.curLine
  /\ \/ a.err = b.err
     \/ /\ UndeclaredLabels(a) = UndeclaredLabels(b)
        /\ \E k \in UndeclaredLabels(a) : a.err = UndeclaredLabelError(k)
        /\ \E l \in UndeclaredLabels(b) : b.err = UndeclaredLabelError(l)

(***************************************************************************)
(* C19: a run on a file that holds the text s ends as the run on the text  *)
(* s followed by a newline ends: both are written the same output, or both *)
(* exit with the same message and the same lines emitted.                  *)
(***************************************************************************)
C19_TrailingNewline ==
  argc = 2 /\ (Succeeded \/ Aborted) =>
    SameCompilation(St, Compile(fileText \o <<NEWLINE>>))

C19_Witness ==
  /\ Succeeded
  /\ fileText = kLET \o SP \o <<"x", " ", "=", " ", "5">>
  /\ outFile = Prologue \o <<"float x;", "x = 5;", "return 0;", "}">>
  /\ Compile(fileText \o <<NEWLINE>>).outFile = outFile

Terminated == Succeeded \/ Aborted

\* the order of the segments of the parser in which control moves as long
\* as no token is consumed: down the calls to primary(), and back through
\* the returns to the end of the statement
Weight(label) ==
  CASE label = "program" -> 30
    [] label = "program_loop" -> 29
    [] label = "program_check" -> 28
    [] label = "program_wrap" -> 27
    [] label \in {"if_body", "while_body"} -> 26
    [] label = "statement" -> 25
    [] label = "comparison" -> 24
    [] label = "expression" -> 23
    [] label = "term" -> 22
    [] label = "unary" -> 21
    [] label = "primary" -> 20
    [] label = "term_loop" -> 19
    [] label = "expression_loop" -> 18
    [] label \in {"comparison_op", "comparison_loop", "let_end",
                  "print_end"} -> 17
    [] label \in {"if_then", "while_repeat", "statement_nl"} -> 16
    [] label = "" -> 1

\* the characters the lexer has not gone past, the two EOF tokens counted
Remaining(m) == Len(m.source) + 3 - m.curPos

\* a number that every step of a run lowers: the stage of main(), then the
\* characters left, then the weight of the segment that runs next
Rank(m) ==
  CASE m.pc \in {"done", "aborted"} -> 0
    [] m.pc = "parsing" -> Remaining(m) * 32 + Weight(Top(m))
    [] m.pc = "program" -> (Len(fileText) + 5) * 32 + 1
    [] m.pc = "parser" -> (Len(fileText) + 5) * 32 + 2
    [] m.pc = "emitter" -> (Len(fileText) + 5) * 32 + 3
    [] m.pc = "lexer" -> (Len(fileText) + 5) * 32 + 4
    [] m.pc = "main" -> (Len(fileText) + 5) * 32 + 5

\* the segments of the parser
Segments == ExprLabels \cup StatementCallers \cup
  {"program", "program_check", "program_wrap", "statement", "print_end",
   "if_then", "while_repeat", "let_end", "statement_nl"}

\* main() or the parser has a step to take
HasNextStep ==
  \/ pc \in {"main", "lexer", "emitter", "parser", "program"}
  \/ pc = "parsing" /\ (stack = <<>> \/ Top(St) \in Segments)

C20_State ==
  /\ Rank(St) >= 0
  /\ ~Terminated => HasNextStep
  /\ pc \in {"program", "parsing", "done"} =>
       /\ curPos <= Len(source) + 2
       /\ ~(peekToken.kind = "EOF") => curPos <= Len(source)

C20_Step ==
  /\ Rank(St') < Rank(St)
  /\ pc \in {"parser", "parsing"} =>
       /\ curPos' >= curPos
       /\ err' = "" /\ (peekToken' # peekToken \/ curToken' # curToken) =>
            curPos' > curPos
       /\ curPos' = curPos /\ pc' = "parsing" =>
            Weight(Top(St')) < Weight(Top(St))

(***************************************************************************)
(* C20: every run ends, written or exited.  A run that has not ended has a *)
(* next step, and every step lowers Rank, a natural number.  The lexer     *)
(* never moves back and never goes past the EOF tokens; a step that        *)
(* changes the current or the next token and does not exit has moved the   *)
(* lexer forward by at least one character; and a step that leaves the     *)
(* lexer where it is moves control to a segment of lower weight, so no     *)
(* loop of the parser comes back to its head without a token consumed.     *)
(***************************************************************************)
C20_Terminates == []C20_State /\ [][C20_Step]_vars

C20_Witness ==
  /\ Aborted
  /\ fileText = kWHILE \o SP \o <<"1", "<", "2">> \o SP \o kREPEAT
  /\ err = "Error. Invalid statement at " \o EOFCH \o " (EOF)"
  /\ code = <<"while(1<2){">>

RECURSIVE FirstBadToken(_)
RECURSIVE FirstBadTokenAfter(_, _)
\* the position where the first token that getToken cannot read starts,
\* reading on from m, or -1 when every token up to EOF is read
FirstBadToken(m) == FirstBadTokenAfter(m, getToken(m))

\* the same, where r is what getToken returns at m
FirstBadTokenAfter(m, r) ==
  IF ~Running(r.m) THEN skipComment(skipWhitespace(m)).curPos
  ELSE IF r.token.kind = "EOF" THEN -1
  ELSE FirstBadToken(r.m)

BadStart == FirstBadToken(LexerOn(fileText))

\* the run on the text before position s
CompileBefore(s) == Compile(SubSeq(fileText, 1, s))

GotoAXPlusBang == kGOTO \o SP \o <<"a", " ", "x", " ", "+", " ", "!">>

PrintXBang == PrintX \o <<" ", "!">>

\* s is where the first token that cannot be read starts and p the run on
\* the text before it: p exits before the parser makes its last token the
\* current one exactly when this run exits with the same parser error
C21_Ahead(s, p) ==
  /\ Aborted
  /\ IF p.pc = "aborted" /\ p.curPos <= s
     THEN /\ ~IsLexingError(err)
          /\ err = p.err
          /\ curToken = p.curToken /\ peekToken = p.peekToken
          /\ header = p.header /\ code = p.code /\ curLine = p.curLine
     ELSE /\ IsLexingError(err)
          /\ curPos >= s
          /\ p.pc = "aborted" /\ p.curPos = s + 1 => curToken = p.curToken

C21_Final(s) ==
  IF s < 0 THEN ~IsLexingError(err) ELSE C21_Ahead(s, CompileBefore(s))

C21_State ==
  /\ argc = 2 /\ Terminated => C21_Final(BadStart)
  /\ fileText = GotoAXPlusBang /\ Terminated =>
       err = "Error. Expected NEWLINE, got IDENT"
  /\ fileText = PrintXBang /\ Terminated =>
       err = "Lexing error. Expected !=, got !" \o NEWLINE

C21_Step ==
  IsLexingError(err') =>
    /\ pc \in {"parser", "parsing"}
    /\ curToken' = peekToken'

(***************************************************************************)
(* C21: errors are reported in the order the compiler meets them, with the *)
(* lexer one token ahead of the parser.  A lexical error is raised in the  *)
(* step that makes the token before it the current token, before the       *)
(* parser tests that token.  When the first token that cannot be read      *)
(* starts at s, the run exits with the parser's error exactly when the run *)
(* on the text before s exits while a token before the last one is         *)
(* current, and with the lexical error otherwise: "GOTO a x + !" exits     *)
(* for the x and "PRINT x !" for the "!".                                  *)
(***************************************************************************)
C21_ErrorsInDetectionOrder == []C21_State /\ [][C21_Step]_vars

C21_Witness ==
  /\ Aborted
  /\ fileText = GotoAXPlusBang
  /\ err = "Error. Expected NEWLINE, got IDENT"
  /\ curToken = Token("x", "IDENT")
  /\ peekToken = Token("+", "PLUS")

\* the run on the text before s exits for one of its tokens
C21_ParserFirst(s, p) ==
  p.pc = "aborted" /\ p.curPos <= s + 1 => err = p.err

C21_Earliest(s) == s >= 0 => C21_ParserFirst(s, CompileBefore(s))

(***************************************************************************)
(* C21 as stated: when a token violates a rule of the parser and a token   *)
(* after it cannot be read, the run exits with the parser's error.         *)
(***************************************************************************)
C21_SourceOrder == argc = 2 /\ Terminated => C21_Earliest(BadStart)

\* the body lines a finished "LET name = ..." can have emitted in this
\* source, and the line of a finished "INPUT name" that resets the variable
AssignLines(name) ==
  {name \o " = " \o Strip(a, b) \o ";" :
     a \in EndsOf(<<"=">>), b \in 0..Len(source)}
  \cup {name \o " = 0;"}

\* a LET or INPUT statement of name has been compiled to its end
DeclaredEarlier(name) == \E i \in DOMAIN code : code[i] \in AssignLines(name)

LetXPlusOne == LetHead \o <<" ", "x", "+", "1">>

C22_State == fileText = LetXPlusOne => ~Succeeded

C22_Step ==
  At(St, "primary") /\ curTokeHasType(St, "IDENT") /\ err' = "" =>
    DeclaredEarlier(curToken.text)

(***************************************************************************)
(* C22: when primary() accepts an identifier, a LET or INPUT statement of  *)
(* that name was compiled to its end before the statement that holds the   *)
(* read; the program "LET x = x+1" alone never compiles.                   *)
(***************************************************************************)
C22_ReadAfterDeclaringStatement == []C22_State /\ [][C22_Step]_vars

TypeOK ==
  /\ pc \in {"main", "lexer", "emitter", "parser", "program", "parsing",
             "done", "aborted", "lexing"}
  /\ curPos \in -1..(Len(source) + 2)
  /\ writes \in 0..1

====
